---- MODULE Spec2Model ----
(***************************************************************************)
(* License / device entitlement engine of rflex_backend.                   *)
(*                                                                         *)
(* The store (licenses, device activations, plans) is the state; every     *)
(* service function is one action.  Where requests of concurrent sessions *)
(* interleave, an operation is also given in two steps, its query and its  *)
(* commit: reactivate_device (capacity check, commit), renew_license (the  *)
(* route loads the row, the service computes and commits) and              *)
(* activate_device (license query, checks and commit).  Time is counted in *)
(* days; every datetime.utcnow() of one handler reads the same instant     *)
(* `now`.  A nullable column holds <<>> (None) or <<value>>.  A character  *)
(* string the code takes apart (a license code) is a sequence of           *)
(* one-character strings.                                                  *)
(*                                                                         *)
(* License.is_expired is declared as a plain method (no @property).  The   *)
(* services test `license.is_expired` without calling it, which evaluates  *)
(* a bound-method object and is therefore always true; is_expired_attr     *)
(* models those call sites, License_is_expired the method itself.          *)
(***************************************************************************)
EXTENDS Integers, FiniteSets, Sequences, TLC

VARIABLES now, companies, plans, licenses, activations, issued, pending, obs, last,
          license_code, validation_logs, renewing, activating

vars == <<now, companies, plans, licenses, activations, issued, pending, obs, last,
          license_code, validation_logs, renewing, activating>>

----------------------------------------------------------------------------
(* Bounds of the model *)

MaxTime == 1
MaxDays == 1
MaxSeats == 1
MaxPattern == 2
MaxShort == 5
MaxLogs == 2
MaxTokens == 2

(* Program constants *)

grace_period_hours == 72
TokenDays == 90
CodeLength == 32
FormatEvery == 4
access_token_expire_minutes == 480

GracePeriod == grace_period_hours \div 24

LicenseIds == {"L1", "L2"}
PlanIds == {"P1", "PU"}
CompanyIds == {"K1"}
RequestPlanIds == PlanIds \cup {"P9"}
RequestCompanyIds == CompanyIds \cup {"K9"}
Codes == {"CA", "CB"}
RequestCodes == Codes \cup {"CX"}
ActIds == {"a1", "a2", "a3"}
DeviceIds == {"d1", "d2"}
RequestDeviceIds == DeviceIds \cup {"d9"}
Reasons == {"r"}
RequestIds == {"q1"}
Metas == {"m1"}

INACTIVE == "inactive"
ACTIVE == "active"
SUSPENDED == "suspended"
EXPIRED == "expired"
LicenseStatus == {INACTIVE, ACTIVE, SUSPENDED, EXPIRED}

(* Messages of the services (ASCII transliteration of the source strings) *)
MsgLicenseNotFound == "Licenca nao encontrada"
MsgLicenseNotActive == "Licenca nao esta ativa"
MsgLicenseExpired == "Licenca expirada"
MsgNoCapacity == "Limite de dispositivos atingido"
MsgOtherLicense == "Dispositivo ja ativado em outra licenca"
MsgInvalidToken == "Token de ativacao invalido"
MsgTokenMismatch == "Token nao pertence a este dispositivo"
MsgDeviceNotFound == "Dispositivo nao encontrado"
MsgDeviceRevoked == "Dispositivo revogado"
MsgValid == "Licenca valida"
MsgGrace == "Valido (periodo de tolerancia offline)"
MsgOk == "ok"
MsgIntegrity == "IntegrityError"
MsgCredentials == "Nao foi possivel validar as credenciais"
MsgPlanInUse == "Nao e possivel remover plano com licencas vinculadas"

----------------------------------------------------------------------------
(* app/models/license.py *)

License_is_expired(lic, t) == lic.expires_at < t

is_expired_attr_Never(lic, t) == FALSE

is_expired_attr(lic, t) == TRUE

License_is_valid_Strict(lic, t) ==
    IF lic.status # ACTIVE THEN FALSE
    ELSE IF lic.expires_at <= t THEN FALSE
    ELSE TRUE

License_is_valid(lic, t) ==
    IF lic.status # ACTIVE THEN FALSE
    ELSE IF lic.expires_at < t THEN FALSE
    ELSE TRUE

get_active_devices_count(lid, acts) ==
    Cardinality({a \in DOMAIN acts : acts[a].license_id = lid /\ acts[a].is_active})

(* app/services/license_service.py *)

check_availability_OffByOne(lid, lics, pls, acts) ==
    IF pls[lics[lid].plan_id].max_devices = -1 THEN TRUE
    ELSE get_active_devices_count(lid, acts) <= pls[lics[lid].plan_id].max_devices

check_availability(lid, lics, pls, acts) ==
    IF pls[lics[lid].plan_id].max_devices = -1 THEN TRUE
    ELSE get_active_devices_count(lid, acts) < pls[lics[lid].plan_id].max_devices

get_available_slots_NoSentinel(lid, lics, pls, acts) ==
    LET free == pls[lics[lid].plan_id].max_devices - get_active_devices_count(lid, acts)
    IN IF free > 0 THEN free ELSE 0

get_available_slots(lid, lics, pls, acts) ==
    IF pls[lics[lid].plan_id].max_devices = -1 THEN -1
    ELSE LET free == pls[lics[lid].plan_id].max_devices - get_active_devices_count(lid, acts)
         IN IF free > 0 THEN free ELSE 0

(* app/models/device_activation.py *)

revoke_KeepsActive(row, reason, t) ==
    [row EXCEPT !.is_revoked = TRUE, !.revoked_at = <<t>>, !.revoke_reason = <<reason>>]

revoke(row, reason, t) ==
    [row EXCEPT !.is_active = FALSE, !.is_revoked = TRUE,
                !.revoked_at = <<t>>, !.revoke_reason = <<reason>>]

reactivate(row) ==
    [row EXCEPT !.is_active = TRUE, !.is_revoked = FALSE,
                !.revoked_at = <<>>, !.revoke_reason = <<>>]

update_validation_Skipped(row, t) == row

update_validation(row, t) == [row EXCEPT !.last_validated_at = <<t>>]

NewActivation(lid, did, meta, t) ==
    [license_id |-> lid, device_id |-> did, meta |-> meta,
     activated_at |-> t, last_validated_at |-> <<>>,
     is_active |-> TRUE, is_revoked |-> FALSE,
     revoked_at |-> <<>>, revoke_reason |-> <<>>]

(* app/core/security.py *)

create_device_token_OtherLicense(did, lid, t) ==
    [sub |-> did, type |-> "device", license_id |-> "L2",
     exp |-> t + TokenDays, sig |-> "good"]

create_device_token(did, lid, t) ==
    [sub |-> did, type |-> "device", license_id |-> lid,
     exp |-> t + TokenDays, sig |-> "good"]

(* The payload of an access token holds sub and exp only; "none" stands    *)
(* for a field the payload does not have.                                  *)
create_access_token(sub, t) ==
    [sub |-> sub, type |-> "none", license_id |-> "none",
     exp |-> t + access_token_expire_minutes \div (24 * 60), sig |-> "good"]

decode_access_token(tok, t) == tok.sig = "good" /\ ~(tok.exp < t)

(* The admin_users table (no operation of the model writes it): one active *)
(* and one inactive administrator.  A device chooses its device_id, which  *)
(* may be the id of an administrator.                                      *)
AdminIds == {"d1", "u2"}

AdminUsers == [u \in AdminIds |-> [is_active |-> u = "d1"]]

(* credentials is <<>> (no Authorization header) or <<token>> *)
get_current_admin(credentials, admins, t) ==
    LET fail(m) == [ok |-> FALSE, msg |-> m, user |-> <<>>] IN
    IF credentials = <<>> THEN fail("Nao foi fornecido credencial de autenticacao")
    ELSE LET tok == credentials[1] IN
    IF ~decode_access_token(tok, t) THEN fail(MsgCredentials)
    ELSE IF tok.sub = "none" THEN fail(MsgCredentials)
    ELSE IF tok.sub \notin DOMAIN admins THEN fail("Usuario nao encontrado")
    ELSE IF ~admins[tok.sub].is_active THEN fail("Usuario inativo")
    ELSE [ok |-> TRUE, msg |-> MsgOk, user |-> <<tok.sub>>]

verify_device_token_AnyType(tok, t) ==
    IF ~decode_access_token(tok, t) THEN <<>>
    ELSE <<[device_id |-> tok.sub, license_id |-> tok.license_id]>>

verify_device_token(tok, t) ==
    IF ~decode_access_token(tok, t) THEN <<>>
    ELSE IF tok.type # "device" THEN <<>>
    ELSE <<[device_id |-> tok.sub, license_id |-> tok.license_id]>>

----------------------------------------------------------------------------
(* app/utils/license_code.py *)

CodeChars ==
    {"A", "B", "C", "D", "E", "F", "G", "H", "J", "K", "L", "M", "N", "P", "Q", "R",
     "S", "T", "U", "V", "W", "X", "Y", "Z", "2", "3", "4", "5", "6", "7", "8", "9"}

Lowercase == <<"a", "b", "c", "d", "e", "f", "g", "h", "i", "j", "k", "l", "m",
               "n", "o", "p", "q", "r", "s", "t", "u", "v", "w", "x", "y", "z">>

Uppercase == <<"A", "B", "C", "D", "E", "F", "G", "H", "I", "J", "K", "L", "M",
               "N", "O", "P", "Q", "R", "S", "T", "U", "V", "W", "X", "Y", "Z">>

(* str.upper(), str.replace(ch, "") and str.join *)
upper(str) ==
    [i \in DOMAIN str |->
        IF \E k \in DOMAIN Lowercase : Lowercase[k] = str[i]
        THEN Uppercase[CHOOSE k \in DOMAIN Lowercase : Lowercase[k] = str[i]]
        ELSE str[i]]

remove(str, ch) == SelectSeq(str, LAMBDA c : c # ch)

RECURSIVE join(_, _)
join(parts, sep) ==
    IF parts = <<>> THEN <<>>
    ELSE IF Len(parts) = 1 THEN parts[1]
    ELSE parts[1] \o sep \o join(Tail(parts), sep)

(* generate_license_code draws each character with secrets.choice; the     *)
(* codes considered are the repetitions of a short pattern over a few      *)
(* characters of the alphabet, cut to the requested length.                *)
SampleChars == {"A", "Z", "2", "9"}

Patterns == UNION {[1..n -> SampleChars] : n \in 1..MaxPattern}

generate_license_code(length) ==
    {[i \in 1..length |-> p[((i - 1) % Len(p)) + 1]] : p \in Patterns}

format_license_code(str, format_every) ==
    LET n == (Len(str) + format_every - 1) \div format_every
        parts == [k \in 1..n |->
                    SubSeq(str, (k - 1) * format_every + 1,
                           IF k * format_every < Len(str) THEN k * format_every ELSE Len(str))]
    IN join(parts, <<"-">>)

validate_license_code_format(str) ==
    LET clean_code == upper(remove(remove(str, "-"), " ")) IN
    IF Len(clean_code) # CodeLength THEN FALSE
    ELSE \A i \in DOMAIN clean_code : clean_code[i] \in CodeChars

sanitize_license_code_KeepsHyphens(str) == upper(remove(str, " "))

sanitize_license_code(str) == upper(remove(remove(str, "-"), " "))

----------------------------------------------------------------------------
(* Store lookups: db.query(...).filter(...).first() *)

LicenseByCode(lics, code) == {l \in DOMAIN lics : lics[l].code = code}

ActByDevice(acts, did) == {a \in DOMAIN acts : acts[a].device_id = did}

Put(f, k, v) == [x \in DOMAIN f \cup {k} |-> IF x = k THEN v ELSE f[x]]

FreeActIds(acts) == ActIds \ DOMAIN acts

FreeLicenseIds(lics) == LicenseIds \ DOMAIN lics

Restrict(f, S) == [x \in S |-> f[x]]

(* The device activations of a set of licenses (License.device_activations) *)
Dependents(acts, ls) == {a \in DOMAIN acts : acts[a].license_id \in ls}

----------------------------------------------------------------------------
(* app/services/license_service.py *)

create_license(cos, pls, lics, company_id, plan_id, code, validity_days, t) ==
    IF company_id \notin cos
    THEN [ok |-> FALSE, msg |-> "Empresa nao encontrada", licenses |-> lics, id |-> <<>>]
    ELSE IF plan_id \notin DOMAIN pls
    THEN [ok |-> FALSE, msg |-> "Plano nao encontrado", licenses |-> lics, id |-> <<>>]
    ELSE IF LicenseByCode(lics, code) # {}
    THEN [ok |-> FALSE, msg |-> MsgIntegrity, licenses |-> lics, id |-> <<>>]
    ELSE LET lid == CHOOSE l \in FreeLicenseIds(lics) : TRUE
             row == [code |-> code, company_id |-> company_id, plan_id |-> plan_id,
                     status |-> INACTIVE, expires_at |-> t + validity_days]
         IN [ok |-> TRUE, msg |-> MsgOk, licenses |-> Put(lics, lid, row), id |-> <<lid>>]

update_license(lic, status) ==
    IF status # <<>> THEN [lic EXCEPT !.status = status[1]] ELSE lic

renew_license_AlwaysActive(lic, days, t) ==
    LET e == IF is_expired_attr(lic, t) THEN t + days ELSE lic.expires_at + days
    IN [lic EXCEPT !.expires_at = e, !.status = ACTIVE]

renew_license_FromOldExpiry(lic, days, t) ==
    LET s == IF lic.status \in {EXPIRED, SUSPENDED} THEN ACTIVE ELSE lic.status
    IN [lic EXCEPT !.expires_at = lic.expires_at + days, !.status = s]

renew_license(lic, days, t) ==
    LET e == IF is_expired_attr(lic, t) THEN t + days ELSE lic.expires_at + days
        s == IF lic.status \in {EXPIRED, SUSPENDED} THEN ACTIVE ELSE lic.status
    IN [lic EXCEPT !.expires_at = e, !.status = s]

(* renew_license against the store: the session wrote the columns whose   *)
(* new value differs from the value it loaded; the UPDATE of a row that    *)
(* is gone matches nothing.                                                *)
renew_commit(lics, l, loaded, days, t) ==
    LET new == renew_license(loaded, days, t) IN
    IF l \notin DOMAIN lics THEN lics
    ELSE [lics EXCEPT
            ![l].expires_at = IF new.expires_at # loaded.expires_at
                              THEN new.expires_at ELSE @,
            ![l].status = IF new.status # loaded.status THEN new.status ELSE @]

suspend_license(lic) == [lic EXCEPT !.status = SUSPENDED]

activate_license(lic, t) ==
    IF is_expired_attr(lic, t)
    THEN [ok |-> FALSE, license |-> lic,
          msg |-> "Nao e possivel ativar licenca expirada. Renove primeiro."]
    ELSE [ok |-> TRUE, msg |-> MsgOk, license |-> [lic EXCEPT !.status = ACTIVE]]

(* db.delete(license): the relationship cascades (all, delete-orphan) and  *)
(* the foreign keys (ON DELETE CASCADE) remove the device activations of   *)
(* the license and their validation logs.                                  *)
delete_license_NoCascade(lics, acts, logs, l) ==
    [licenses |-> Restrict(lics, DOMAIN lics \ {l}),
     activations |-> acts,
     validation_logs |-> logs]

delete_license(lics, acts, logs, l) ==
    LET gone == Dependents(acts, {l}) IN
    [licenses |-> Restrict(lics, DOMAIN lics \ {l}),
     activations |-> Restrict(acts, DOMAIN acts \ gone),
     validation_logs |-> SelectSeq(logs, LAMBDA e : e.device_activation_id \notin gone)]

(* app/services/company_service.py *)
delete_company(cos, lics, acts, logs, c) ==
    LET ls == {l \in DOMAIN lics : lics[l].company_id = c}
        gone == Dependents(acts, ls)
    IN [companies |-> cos \ {c},
        licenses |-> Restrict(lics, DOMAIN lics \ ls),
        activations |-> Restrict(acts, DOMAIN acts \ gone),
        validation_logs |-> SelectSeq(logs, LAMBDA e : e.device_activation_id \notin gone)]

(* app/services/plan_service.py *)
delete_plan_Unguarded(pls, lics, p) ==
    [ok |-> TRUE, msg |-> MsgOk, plans |-> Restrict(pls, DOMAIN pls \ {p})]

delete_plan(pls, lics, p) ==
    IF {l \in DOMAIN lics : lics[l].plan_id = p} # {}
    THEN [ok |-> FALSE, msg |-> MsgPlanInUse, plans |-> pls]
    ELSE [ok |-> TRUE, msg |-> MsgOk, plans |-> Restrict(pls, DOMAIN pls \ {p})]

mark_expired_licenses_IgnoresStatus(lics, t) ==
    [l \in DOMAIN lics |->
        IF lics[l].expires_at < t
        THEN [lics[l] EXCEPT !.status = EXPIRED] ELSE lics[l]]

mark_expired_licenses(lics, t) ==
    [l \in DOMAIN lics |->
        IF lics[l].status = ACTIVE /\ lics[l].expires_at < t
        THEN [lics[l] EXCEPT !.status = EXPIRED] ELSE lics[l]]

(* The number mark_expired_licenses returns: the rows its query selected *)
mark_expired_licenses_count(lics, t) ==
    Cardinality({l \in DOMAIN lics : lics[l].status = ACTIVE /\ lics[l].expires_at < t})

----------------------------------------------------------------------------
(* app/services/device_service.py *)

activate_device(lics, pls, acts, code, did, meta, t) ==
    LET ls == LicenseByCode(lics, code)
        fail(m) == [ok |-> FALSE, msg |-> m, activations |-> acts, token |-> <<>>]
    IN
    IF ls = {} THEN fail(MsgLicenseNotFound)
    ELSE LET lid == CHOOSE l \in ls : TRUE IN
    IF lics[lid].status # ACTIVE THEN fail(MsgLicenseNotActive)
    ELSE IF is_expired_attr(lics[lid], t) THEN fail(MsgLicenseExpired)
    ELSE IF ~check_availability(lid, lics, pls, acts) THEN fail(MsgNoCapacity)
    ELSE LET ex == ActByDevice(acts, did) IN
    IF ex # {}
    THEN LET a == CHOOSE x \in ex : TRUE IN
         IF acts[a].license_id = lid /\ acts[a].is_active
         THEN [ok |-> TRUE, msg |-> MsgOk, activations |-> acts,
               token |-> <<create_device_token(did, lid, t)>>]
         ELSE IF acts[a].license_id # lid THEN fail(MsgOtherLicense)
         ELSE [ok |-> TRUE, msg |-> MsgOk,
               activations |-> [acts EXCEPT ![a] = [reactivate(acts[a]) EXCEPT !.meta = meta]],
               token |-> <<create_device_token(did, lid, t)>>]
    ELSE IF FreeActIds(acts) = {} THEN fail(MsgIntegrity)
    ELSE LET a == CHOOSE x \in FreeActIds(acts) : TRUE IN
         [ok |-> TRUE, msg |-> MsgOk,
          activations |-> Put(acts, a, NewActivation(lid, did, meta, t)),
          token |-> <<create_device_token(did, lid, t)>>]

validate_device_NoRevokedCheck(lics, acts, did, tok, is_offline, t) ==
    LET token_data == verify_device_token(tok, t)
        fail(m, l) == [ok |-> FALSE, msg |-> m, license |-> l, activations |-> acts]
    IN
    IF token_data = <<>> THEN fail(MsgInvalidToken, <<>>)
    ELSE IF token_data[1].device_id # did THEN fail(MsgTokenMismatch, <<>>)
    ELSE LET ex == ActByDevice(acts, did) IN
    IF ex = {} THEN fail(MsgDeviceNotFound, <<>>)
    ELSE LET a == CHOOSE x \in ex : TRUE
             lid == token_data[1].license_id
         IN
    IF lid \notin DOMAIN lics THEN fail(MsgLicenseNotFound, <<>>)
    ELSE IF lics[lid].status # ACTIVE THEN fail(MsgLicenseNotActive, <<lid>>)
    ELSE LET grace_period_end == IF acts[a].last_validated_at # <<>>
                                 THEN <<acts[a].last_validated_at[1] + GracePeriod>>
                                 ELSE <<>>
             updated == [acts EXCEPT ![a] = update_validation(acts[a], t)]
         IN
    IF is_expired_attr(lics[lid], t)
    THEN IF is_offline /\ grace_period_end # <<>> /\ grace_period_end[1] > t
         THEN [ok |-> TRUE, msg |-> MsgGrace, license |-> <<lid>>, activations |-> updated]
         ELSE fail(MsgLicenseExpired, <<lid>>)
    ELSE [ok |-> TRUE, msg |-> MsgValid, license |-> <<lid>>, activations |-> updated]

validate_device(lics, acts, did, tok, is_offline, t) ==
    LET token_data == verify_device_token(tok, t)
        fail(m, l) == [ok |-> FALSE, msg |-> m, license |-> l, activations |-> acts]
    IN
    IF token_data = <<>> THEN fail(MsgInvalidToken, <<>>)
    ELSE IF token_data[1].device_id # did THEN fail(MsgTokenMismatch, <<>>)
    ELSE LET ex == ActByDevice(acts, did) IN
    IF ex = {} THEN fail(MsgDeviceNotFound, <<>>)
    ELSE LET a == CHOOSE x \in ex : TRUE
             lid == token_data[1].license_id
         IN
    IF ~acts[a].is_active \/ acts[a].is_revoked THEN fail(MsgDeviceRevoked, <<>>)
    ELSE IF lid \notin DOMAIN lics THEN fail(MsgLicenseNotFound, <<>>)
    ELSE IF lics[lid].status # ACTIVE THEN fail(MsgLicenseNotActive, <<lid>>)
    ELSE LET grace_period_end == IF acts[a].last_validated_at # <<>>
                                 THEN <<acts[a].last_validated_at[1] + GracePeriod>>
                                 ELSE <<>>
             updated == [acts EXCEPT ![a] = update_validation(acts[a], t)]
         IN
    IF is_expired_attr(lics[lid], t)
    THEN IF is_offline /\ grace_period_end # <<>> /\ grace_period_end[1] > t
         THEN [ok |-> TRUE, msg |-> MsgGrace, license |-> <<lid>>, activations |-> updated]
         ELSE fail(MsgLicenseExpired, <<lid>>)
    ELSE [ok |-> TRUE, msg |-> MsgValid, license |-> <<lid>>, activations |-> updated]

revoke_device(acts, a, reason, t) == [acts EXCEPT ![a] = revoke(acts[a], reason, t)]

(* ValidationStatus and log_validation *)
SUCCESS == "success"
FAILED == "failed"
GRACE_PERIOD == "grace_period"

(* "tolerância" in message.lower(): of the messages of validate_device only *)
(* the grace-period one contains the word                                   *)
ContainsTolerancia(msg) == msg = MsgGrace

log_validation(logs, a, status, is_offline, error_message, t) ==
    Append(logs, [device_activation_id |-> a, status |-> status,
                  is_offline |-> is_offline, error_message |-> error_message,
                  validated_at |-> t])

(* reactivate_device, first half: the license query and the capacity check *)
reactivate_check_ActiveOnly(lics, pls, acts, a) ==
    LET lid == acts[a].license_id IN
    IF lid \in DOMAIN lics
       /\ (lics[lid].status # ACTIVE \/ ~check_availability(lid, lics, pls, acts))
    THEN [ok |-> FALSE, msg |-> MsgNoCapacity]
    ELSE [ok |-> TRUE, msg |-> MsgOk]

reactivate_check(lics, pls, acts, a) ==
    LET lid == acts[a].license_id IN
    IF lid \in DOMAIN lics /\ ~check_availability(lid, lics, pls, acts)
    THEN [ok |-> FALSE, msg |-> MsgNoCapacity]
    ELSE [ok |-> TRUE, msg |-> MsgOk]

reactivate_commit_ClearsValidation(acts, a, loaded) ==
    IF a \notin DOMAIN acts THEN acts
    ELSE [acts EXCEPT ![a] = [reactivate(loaded) EXCEPT !.last_validated_at = <<>>]]

reactivate_commit_Insert(acts, a, loaded) ==
    IF FreeActIds(acts) = {} THEN acts
    ELSE Put(acts, CHOOSE x \in FreeActIds(acts) : TRUE, reactivate(loaded))

(* reactivate_device, second half: activation.reactivate() and db.commit().   *)
(* The session flushes the columns whose new value differs from the value    *)
(* it loaded; the other columns keep what the store holds at commit time.     *)
(* The UPDATE of a row that was deleted since it was loaded matches no row    *)
(* (StaleDataError) and writes nothing.                                       *)
reactivate_commit(acts, a, loaded) ==
    LET new == reactivate(loaded) IN
    IF a \notin DOMAIN acts THEN acts
    ELSE [acts EXCEPT
            ![a].is_active = IF new.is_active # loaded.is_active THEN new.is_active ELSE @,
            ![a].is_revoked = IF new.is_revoked # loaded.is_revoked
                              THEN new.is_revoked ELSE @,
            ![a].revoked_at = IF new.revoked_at # loaded.revoked_at
                              THEN new.revoked_at ELSE @,
            ![a].revoke_reason = IF new.revoke_reason # loaded.revoke_reason
                                 THEN new.revoke_reason ELSE @]

(* activate_device, db.commit(): the store refuses (IntegrityError) a row  *)
(* whose license_id names no license (foreign key of device_activations).  *)
activate_commit(lics, acts, r) ==
    IF \E a \in DOMAIN r.activations :
          /\ a \notin DOMAIN acts \/ r.activations[a] # acts[a]
          /\ r.activations[a].license_id \notin DOMAIN lics
    THEN [ok |-> FALSE, msg |-> MsgIntegrity, activations |-> acts, token |-> <<>>]
    ELSE r

----------------------------------------------------------------------------
(* app/api/v1/routes/public.py: the public license information *)
get_license_info(lics, pls, acts, code, t) ==
    LET ls == LicenseByCode(lics, code) IN
    IF ls = {} THEN [ok |-> FALSE, msg |-> MsgLicenseNotFound, info |-> <<>>]
    ELSE LET lid == CHOOSE l \in ls : TRUE IN
         [ok |-> TRUE, msg |-> MsgOk,
          info |-> <<[code |-> lics[lid].code,
                      status |-> lics[lid].status,
                      expires_at |-> lics[lid].expires_at,
                      is_valid |-> License_is_valid(lics[lid], t),
                      max_devices |-> pls[lics[lid].plan_id].max_devices,
                      active_devices |-> get_active_devices_count(lid, acts),
                      available_slots |-> get_available_slots(lid, lics, pls, acts)]>>]

----------------------------------------------------------------------------
(* The record of the last observed call (obs is the set of observed        *)
(* <<operation, outcome>> pairs, fixed at start-up): the operation, the    *)
(* row it was aimed at, its result, and that row as it was before the call *)
(* (pre is <<>> or <<row>>; for a read-only query it holds the answer).    *)
(* Any other call resets the record.                                       *)

NoCall == [op |-> "none", target |-> "-", ok |-> TRUE, msg |-> MsgOk, pre |-> <<>>]

Call(op, target, ok, msg, pre) ==
    IF <<op, ok>> \in obs
    THEN [op |-> op, target |-> target, ok |-> ok, msg |-> msg, pre |-> pre]
    ELSE NoCall

(* Store contents at start-up of the device-facing specifications: license *)
(* L1 on either plan in any status, possibly license L2 on the             *)
(* unlimited plan, devices that were activated on L1 (within capacity),    *)
(* some of them revoked since, some of them validated earlier, and the     *)
(* tokens those devices were handed: one at the latest activation and one  *)
(* at an activation more than TokenDays ago.                               *)

SeedDevice(a) == IF a = "a1" THEN "d1" ELSE "d2"

SeedLicense(code, plan, st, e) ==
    [code |-> code, company_id |-> "K1", plan_id |-> plan, status |-> st, expires_at |-> e]

SeedActRows(d) ==
    LET fresh == {[NewActivation("L1", d, m, 0) EXCEPT !.last_validated_at = v] :
                    m \in Metas, v \in {<<>>, <<0>>, <<1 - GracePeriod>>}}
    IN fresh \cup {revoke(r, "r", 0) : r \in fresh}

SeedActivations ==
    UNION {[S -> UNION {SeedActRows(d) : d \in DeviceIds}] : S \in {{}, {"a1"}, {"a1", "a2"}}}

WithinCapacity(lics, pls, acts) ==
    \A l \in DOMAIN lics :
        pls[lics[l].plan_id].max_devices # -1 =>
            get_active_devices_count(l, acts) <= pls[lics[l].plan_id].max_devices

SeedPlans == [p \in PlanIds |-> [max_devices |-> IF p = "P1" THEN MaxSeats ELSE -1]]

InitDevice ==
    /\ now = 0
    /\ companies = CompanyIds
    /\ plans = SeedPlans
    /\ \E st \in LicenseStatus, e \in 0..MaxDays, p \in PlanIds, two \in BOOLEAN :
          licenses = [l \in (IF two THEN {"L1", "L2"} ELSE {"L1"}) |->
                        IF l = "L1" THEN SeedLicense("CA", p, st, e)
                        ELSE SeedLicense("CB", "PU", ACTIVE, MaxDays)]
    /\ activations \in SeedActivations
    /\ \A a \in DOMAIN activations : activations[a].device_id = SeedDevice(a)
    /\ WithinCapacity(licenses, plans, activations)
    /\ issued = UNION {{create_device_token(activations[a].device_id, "L1", 0),
                        create_device_token(activations[a].device_id, "L1", 0 - TokenDays - 1)}
                       : a \in DOMAIN activations}
    /\ pending = <<>>
    /\ last = NoCall
    /\ license_code = <<>>
    /\ validation_logs = <<>>
    /\ renewing = <<>>
    /\ activating = <<>>

(* Store contents at start-up of the license-lifecycle specifications:     *)
(* license L1 activated and within its validity, no devices.               *)

InitLicense ==
    /\ now = 0
    /\ companies = CompanyIds
    /\ plans = SeedPlans
    /\ \E e \in 0..MaxDays : licenses = [l \in {"L1"} |-> SeedLicense("CA", "P1", ACTIVE, e)]
    /\ activations = <<>>
    /\ issued = {}
    /\ pending = <<>>
    /\ last = NoCall
    /\ license_code = <<>>
    /\ validation_logs = <<>>
    /\ renewing = <<>>
    /\ activating = <<>>

----------------------------------------------------------------------------
(* Tokens a request may carry: a token the server issued, the same with a  *)
(* broken signature, or an administrator access token (no type field).     *)

AdminToken == [sub |-> "d1", type |-> "none", license_id |-> "L1",
               exp |-> TokenDays, sig |-> "good"]

RequestTokens == issued \cup {[k EXCEPT !.sig = "bad"] : k \in issued} \cup {AdminToken}

RowOf(acts, did) ==
    IF ActByDevice(acts, did) = {} THEN <<>>
    ELSE <<acts[CHOOSE a \in ActByDevice(acts, did) : TRUE]>>

----------------------------------------------------------------------------
(* Actions: one request each *)

Tick ==
    /\ now < MaxTime
    /\ now' = now + 1
    /\ last' = Call("tick", "-", TRUE, MsgOk, <<>>)
    /\ UNCHANGED <<companies, plans, licenses, activations, issued, pending, obs,
                   license_code, validation_logs, renewing, activating>>

CreateLicenseReq(c, p, code, d) ==
    /\ FreeLicenseIds(licenses) # {}
    /\ LET r == create_license(companies, plans, licenses, c, p, code, d, now) IN
       /\ licenses' = r.licenses
       /\ last' = Call("create_license", IF r.ok THEN r.id[1] ELSE "-", r.ok, r.msg, <<>>)
    /\ UNCHANGED <<now, companies, plans, activations, issued, pending, obs, license_code,
                   validation_logs, renewing, activating>>

CreateLicense ==
    \E c \in RequestCompanyIds, p \in RequestPlanIds, code \in Codes, d \in 1..MaxDays :
        CreateLicenseReq(c, p, code, d)

UpdateLicense ==
    \E l \in LicenseIds, st \in LicenseStatus :
        /\ l \in DOMAIN licenses
        /\ licenses' = [licenses EXCEPT ![l] = update_license(licenses[l], <<st>>)]
        /\ last' = Call("update_license", l, TRUE, MsgOk, <<licenses[l]>>)
        /\ UNCHANGED <<now, companies, plans, activations, issued, pending, obs, license_code,
                       validation_logs, renewing, activating>>

RenewLicenseReq(l, d) ==
    /\ l \in DOMAIN licenses
    /\ licenses' = [licenses EXCEPT ![l] = renew_license(licenses[l], d, now)]
    /\ last' = Call("renew_license", l, TRUE, MsgOk, <<licenses[l]>>)
    /\ UNCHANGED <<now, companies, plans, activations, issued, pending, obs, license_code,
                   validation_logs, renewing, activating>>

RenewLicense == \E l \in LicenseIds, d \in 1..MaxDays : RenewLicenseReq(l, d)

(* POST /licenses/{id}/renew in two steps: get_license_by_id loads the row *)
(* into the request's session; renew_license computes from the loaded row  *)
(* and commits.  Requests of other sessions (the one-step actions) may     *)
(* commit in between.                                                      *)
RenewLoad ==
    \E q \in RequestIds, l \in LicenseIds, d \in 1..MaxDays :
        /\ q \notin DOMAIN renewing
        /\ l \in DOMAIN licenses
        /\ renewing' = Put(renewing, q, [license_id |-> l, days |-> d, loaded |-> licenses[l]])
        /\ last' = Call("renew_load", l, TRUE, MsgOk, <<licenses[l]>>)
        /\ UNCHANGED <<now, companies, plans, licenses, activations, issued, pending, obs,
                       license_code, validation_logs, activating>>

RenewCommitReq(q) ==
    /\ q \in DOMAIN renewing
    /\ licenses' = renew_commit(licenses, renewing[q].license_id, renewing[q].loaded,
                                renewing[q].days, now)
    /\ renewing' = [x \in DOMAIN renewing \ {q} |-> renewing[x]]
    /\ last' = Call("renew_commit", renewing[q].license_id, TRUE, MsgOk, <<renewing[q].loaded>>)
    /\ UNCHANGED <<now, companies, plans, activations, issued, pending, obs, license_code,
                   validation_logs, activating>>

RenewCommit == \E q \in RequestIds : RenewCommitReq(q)

SuspendLicense ==
    \E l \in LicenseIds :
        /\ l \in DOMAIN licenses
        /\ licenses' = [licenses EXCEPT ![l] = suspend_license(licenses[l])]
        /\ last' = Call("suspend_license", l, TRUE, MsgOk, <<licenses[l]>>)
        /\ UNCHANGED <<now, companies, plans, activations, issued, pending, obs, license_code,
                       validation_logs, renewing, activating>>

ActivateLicenseReq(l) ==
    /\ l \in DOMAIN licenses
    /\ LET r == activate_license(licenses[l], now) IN
       /\ licenses' = [licenses EXCEPT ![l] = r.license]
       /\ last' = Call("activate_license", l, r.ok, r.msg, <<licenses[l]>>)
    /\ UNCHANGED <<now, companies, plans, activations, issued, pending, obs, license_code,
                   validation_logs, renewing, activating>>

ActivateLicense == \E l \in LicenseIds : ActivateLicenseReq(l)

DeleteLicense ==
    \E l \in LicenseIds :
        /\ l \in DOMAIN licenses
        /\ LET r == delete_license(licenses, activations, validation_logs, l) IN
           /\ licenses' = r.licenses
           /\ activations' = r.activations
           /\ validation_logs' = r.validation_logs
        /\ last' = Call("delete_license", l, TRUE, MsgOk,
                        <<[license |-> licenses[l],
                           device_activations |-> Dependents(activations, {l}),
                           validation_logs |-> Len(validation_logs)]>>)
        /\ UNCHANGED <<now, companies, plans, issued, pending, obs, license_code, renewing,
                       activating>>

DeleteCompany ==
    \E c \in CompanyIds :
        /\ c \in companies
        /\ LET r == delete_company(companies, licenses, activations, validation_logs, c) IN
           /\ companies' = r.companies
           /\ licenses' = r.licenses
           /\ activations' = r.activations
           /\ validation_logs' = r.validation_logs
        /\ last' = Call("delete_company", c, TRUE, MsgOk, <<>>)
        /\ UNCHANGED <<now, plans, issued, pending, obs, license_code, renewing, activating>>

DeletePlanReq(p) ==
    /\ p \in DOMAIN plans
    /\ LET r == delete_plan(plans, licenses, p) IN
       /\ plans' = r.plans
       /\ last' = Call("delete_plan", p, r.ok, r.msg, <<plans[p]>>)
    /\ UNCHANGED <<now, companies, licenses, activations, issued, pending, obs, license_code,
                   validation_logs, renewing, activating>>

DeletePlan == \E p \in PlanIds : DeletePlanReq(p)

MarkExpiredLicenses ==
    /\ licenses' = mark_expired_licenses(licenses, now)
    /\ last' = Call("mark_expired_licenses", "-", TRUE, MsgOk,
                    <<mark_expired_licenses_count(licenses, now)>>)
    /\ UNCHANGED <<now, companies, plans, activations, issued, pending, obs, license_code,
                   validation_logs, renewing, activating>>

ActivateDeviceReq(code, d, m) ==
    LET r == activate_device(licenses, plans, activations, code, d, m, now) IN
    /\ activations' = r.activations
    /\ issued' = issued \cup {r.token[i] : i \in DOMAIN r.token}
    /\ last' = Call("activate_device", d, r.ok, r.msg, RowOf(activations, d))
    /\ UNCHANGED <<now, companies, plans, licenses, pending, obs, license_code,
                   validation_logs, renewing, activating>>

ActivateDevice ==
    \E code \in RequestCodes, d \in RequestDeviceIds, m \in Metas :
        ActivateDeviceReq(code, d, m)

(* POST /activate in two steps: the license query of activate_device loads *)
(* the license (and its plan) into the request's session; the rest of the  *)
(* function decides on the loaded license and commits.                     *)
ActivateLookup ==
    \E q \in RequestIds, code \in RequestCodes, d \in RequestDeviceIds, m \in Metas :
        /\ q \notin DOMAIN activating
        /\ activating' = Put(activating, q,
                             [license_code |-> code, device_id |-> d, meta |-> m,
                              licenses |-> Restrict(licenses, LicenseByCode(licenses, code)),
                              plans |-> Restrict(plans, {licenses[l].plan_id :
                                                           l \in LicenseByCode(licenses, code)})])
        /\ last' = Call("activate_lookup", d, TRUE, MsgOk, <<>>)
        /\ UNCHANGED <<now, companies, plans, licenses, activations, issued, pending, obs,
                       license_code, validation_logs, renewing>>

ActivateFinish ==
    \E q \in RequestIds :
        /\ q \in DOMAIN activating
        /\ LET s == activating[q]
               r == activate_commit(licenses, activations,
                        activate_device(s.licenses, s.plans, activations,
                                        s.license_code, s.device_id, s.meta, now))
           IN /\ activations' = r.activations
              /\ issued' = issued \cup {r.token[i] : i \in DOMAIN r.token}
              /\ last' = Call("activate_device", s.device_id, r.ok, r.msg,
                              RowOf(activations, s.device_id))
        /\ activating' = Restrict(activating, DOMAIN activating \ {q})
        /\ UNCHANGED <<now, companies, plans, licenses, pending, obs, license_code,
                       validation_logs, renewing>>

ValidateDeviceReq(d, tok, off) ==
    LET r == validate_device(licenses, activations, d, tok, off, now) IN
    /\ activations' = r.activations
    /\ last' = Call("validate_device", d, r.ok, r.msg, RowOf(activations, d))
    /\ UNCHANGED <<now, companies, plans, licenses, issued, pending, obs, license_code,
                   validation_logs, renewing, activating>>

ValidateDevice ==
    \E d \in RequestDeviceIds, tok \in RequestTokens, off \in BOOLEAN :
        ValidateDeviceReq(d, tok, off)

RevokeDeviceReq(a, reason) ==
    /\ a \in DOMAIN activations
    /\ activations' = revoke_device(activations, a, reason, now)
    /\ last' = Call("revoke_device", a, TRUE, MsgOk, <<activations[a]>>)
    /\ UNCHANGED <<now, companies, plans, licenses, issued, pending, obs, license_code,
                   validation_logs, renewing, activating>>

RevokeDevice == \E a \in ActIds, reason \in Reasons : RevokeDeviceReq(a, reason)

(* reactivate_device up to the capacity check; a request that passes holds *)
(* the row it loaded until its commit.                                     *)
ReactivateCheckReq(a) ==
    /\ a \in DOMAIN activations \ DOMAIN pending
    /\ LET r == reactivate_check(licenses, plans, activations, a) IN
       /\ pending' = IF r.ok THEN Put(pending, a, activations[a]) ELSE pending
       /\ last' = Call("reactivate_check", a, r.ok, r.msg, <<activations[a]>>)
    /\ UNCHANGED <<now, companies, plans, licenses, activations, issued, obs, license_code,
                   validation_logs, renewing, activating>>

ReactivateCheck == \E a \in ActIds : ReactivateCheckReq(a)

ReactivateCommit ==
    \E a \in ActIds :
        /\ a \in DOMAIN pending
        /\ activations' = reactivate_commit(activations, a, pending[a])
        /\ pending' = [x \in DOMAIN pending \ {a} |-> pending[x]]
        /\ last' = IF a \in DOMAIN activations
                   THEN Call("reactivate_device", a, TRUE, MsgOk, <<activations[a]>>)
                   ELSE Call("reactivate_device", a, FALSE, "StaleDataError", <<>>)
        /\ UNCHANGED <<now, companies, plans, licenses, issued, obs, license_code,
                       validation_logs, renewing, activating>>

(* reactivate_device as one request that no other request interleaves *)
ReactivateDevice ==
    \E a \in ActIds :
        /\ a \in DOMAIN activations
        /\ LET r == reactivate_check(licenses, plans, activations, a) IN
           /\ activations' = IF r.ok THEN reactivate_commit(activations, a, activations[a])
                             ELSE activations
           /\ last' = Call("reactivate_device", a, r.ok, r.msg, <<activations[a]>>)
        /\ UNCHANGED <<now, companies, plans, licenses, issued, pending, obs, license_code,
                       validation_logs, renewing, activating>>

GetLicenseInfoReq(code) ==
    LET r == get_license_info(licenses, plans, activations, code, now) IN
    /\ last' = Call("get_license_info",
                    IF r.ok THEN CHOOSE l \in LicenseByCode(licenses, code) : TRUE ELSE "-",
                    r.ok, r.msg, r.info)
    /\ UNCHANGED <<now, companies, plans, licenses, activations, issued, pending, obs,
                   license_code, validation_logs, renewing, activating>>

GetLicenseInfo == \E code \in RequestCodes : GetLicenseInfoReq(code)

(* app/core/security.py: tokens are minted for devices and for            *)
(* administrators who log in, and presented to verify_device_token and to   *)
(* get_current_admin.                                                       *)
CreateDeviceToken ==
    /\ Cardinality(issued) < MaxTokens
    /\ \E d \in RequestDeviceIds, l \in LicenseIds :
          issued' = issued \cup {create_device_token(d, l, now)}
    /\ last' = Call("create_device_token", "-", TRUE, MsgOk, <<>>)
    /\ UNCHANGED <<now, companies, plans, licenses, activations, pending, obs, license_code,
                   validation_logs, renewing, activating>>

Login ==
    /\ Cardinality(issued) < MaxTokens
    /\ \E u \in AdminIds :
          /\ AdminUsers[u].is_active
          /\ issued' = issued \cup {create_access_token(u, now)}
    /\ last' = Call("login", "-", TRUE, MsgOk, <<>>)
    /\ UNCHANGED <<now, companies, plans, licenses, activations, pending, obs, license_code,
                   validation_logs, renewing, activating>>

VerifyDeviceTokenReq(tok) ==
    /\ last' = Call("verify_device_token", tok.sub, verify_device_token(tok, now) # <<>>,
                    MsgOk, <<tok>>)
    /\ UNCHANGED <<now, companies, plans, licenses, activations, issued, pending, obs,
                   license_code, validation_logs, renewing, activating>>

VerifyDeviceToken == \E tok \in RequestTokens : VerifyDeviceTokenReq(tok)

GetCurrentAdminReq(credentials) ==
    /\ LET r == get_current_admin(credentials, AdminUsers, now) IN
       last' = Call("get_current_admin", IF r.ok THEN r.user[1] ELSE "-", r.ok, r.msg,
                    credentials)
    /\ UNCHANGED <<now, companies, plans, licenses, activations, issued, pending, obs,
                   license_code, validation_logs, renewing, activating>>

GetCurrentAdmin ==
    \E credentials \in {<<>>} \cup {<<tok>> : tok \in RequestTokens} :
        GetCurrentAdminReq(credentials)

NextToken ==
    \/ Tick
    \/ CreateDeviceToken
    \/ Login
    \/ VerifyDeviceToken
    \/ GetCurrentAdmin

(* app/utils/license_code.py: a code is generated, shown with hyphens,     *)
(* typed back and checked.                                                 *)
GenerateLicenseCode ==
    /\ \E length \in {CodeLength} \cup 0..MaxShort :
          license_code' \in generate_license_code(length)
    /\ last' = Call("generate_license_code", "-", TRUE, MsgOk, <<>>)
    /\ UNCHANGED <<now, companies, plans, licenses, activations, issued, pending, obs,
                   validation_logs, renewing, activating>>

FormatLicenseCode ==
    /\ Len(license_code) <= CodeLength
    /\ license_code' = format_license_code(license_code, FormatEvery)
    /\ last' = Call("format_license_code", "-", TRUE, MsgOk, <<license_code>>)
    /\ UNCHANGED <<now, companies, plans, licenses, activations, issued, pending, obs,
                   validation_logs, renewing, activating>>

SanitizeLicenseCode ==
    /\ license_code' = sanitize_license_code(license_code)
    /\ last' = Call("sanitize_license_code", "-", TRUE, MsgOk, <<license_code>>)
    /\ UNCHANGED <<now, companies, plans, licenses, activations, issued, pending, obs,
                   validation_logs, renewing, activating>>

ValidateLicenseCodeFormat ==
    /\ last' = Call("validate_license_code_format", "-",
                    validate_license_code_format(license_code), MsgOk, <<license_code>>)
    /\ UNCHANGED <<now, companies, plans, licenses, activations, issued, pending, obs,
                   license_code, validation_logs, renewing, activating>>

NextCode ==
    \/ GenerateLicenseCode
    \/ FormatLicenseCode
    \/ SanitizeLicenseCode
    \/ ValidateLicenseCodeFormat

(* POST /validate: the service call, the lookup of the activation for the *)
(* log, and the log entry.                                                 *)
ValidateRouteReq(d, tok, off) ==
    LET r == validate_device(licenses, activations, d, tok, off, now)
        activation == ActByDevice(r.activations, d)
        log_status == IF ContainsTolerancia(r.msg) THEN GRACE_PERIOD
                      ELSE IF r.ok THEN SUCCESS ELSE FAILED
    IN
    /\ Len(validation_logs) < MaxLogs
    /\ activations' = r.activations
    /\ validation_logs' =
          IF activation # {}
          THEN log_validation(validation_logs, CHOOSE a \in activation : TRUE, log_status,
                              off, IF r.ok THEN <<>> ELSE <<r.msg>>, now)
          ELSE validation_logs
    /\ last' = Call("validate", d, r.ok, r.msg, RowOf(activations, d))
    /\ UNCHANGED <<now, companies, plans, licenses, issued, pending, obs, license_code,
                   renewing, activating>>

ValidateRoute ==
    \E d \in RequestDeviceIds, tok \in RequestTokens, off \in BOOLEAN :
        ValidateRouteReq(d, tok, off)

(* The device-facing requests as the routes serve them, with the log *)
NextLog ==
    \/ Tick
    \/ ValidateRoute
    \/ RevokeDevice

NextLicense ==
    \/ Tick
    \/ GetLicenseInfo
    \/ CreateLicense
    \/ UpdateLicense
    \/ RenewLicense
    \/ SuspendLicense
    \/ ActivateLicense
    \/ MarkExpiredLicenses

NextDevice ==
    \/ Tick
    \/ GetLicenseInfo
    \/ ActivateDevice
    \/ ValidateDevice
    \/ RevokeDevice
    \/ ReactivateCheck
    \/ ReactivateCommit

(* The device lifecycle with the periodic expiry sweep running at any time *)
NextSweep ==
    \/ NextDevice
    \/ MarkExpiredLicenses

(* The store under deletions: the administrator deletes licenses, plans    *)
(* and companies while devices validate (and are logged) and activate,     *)
(* and while reactivations are in flight.                                  *)
NextStore ==
    \/ DeleteLicense
    \/ DeleteCompany
    \/ DeletePlan
    \/ ValidateRoute
    \/ ActivateLookup
    \/ ActivateFinish
    \/ ReactivateCheck
    \/ ReactivateCommit

(* The renewals of concurrent sessions, next to suspensions, revocations   *)
(* and renewals done in one step                                           *)
NextRenew ==
    \/ Tick
    \/ RenewLicense
    \/ RenewLoad
    \/ RenewCommit
    \/ SuspendLicense
    \/ RevokeDevice

(* The device lifecycle with every request running to its end before the  *)
(* next one starts                                                         *)
NextSerial ==
    \/ Tick
    \/ ActivateDevice
    \/ ValidateDevice
    \/ RevokeDevice
    \/ ReactivateDevice

(* Specifications: the license lifecycle and the device lifecycle, each    *)
(* observing the calls of some operations.                                 *)

InitLicenseObserved ==
    InitLicense
    /\ obs = {"create_license", "activate_license", "renew_license",
              "mark_expired_licenses"} \X BOOLEAN

SpecLicense ==
    InitLicenseObserved /\ [][NextLicense]_vars

InitValidate ==
    /\ InitDevice /\ DOMAIN licenses = {"L1"} /\ licenses["L1"].plan_id = "P1"
    /\ obs = {<<"validate_device", TRUE>>}

SpecValidate ==
    InitValidate /\ [][NextDevice]_vars

InitActivate ==
    InitDevice /\ licenses["L1"].plan_id = "P1" /\ obs = {"activate_device"} \X BOOLEAN

SpecActivate ==
    InitActivate /\ [][NextDevice]_vars

InitSeats ==
    /\ InitDevice /\ DOMAIN licenses = {"L1"} /\ licenses["L1"].plan_id = "P1"
    /\ \A a \in DOMAIN activations : activations[a].last_validated_at \in {<<>>, <<0>>}
    /\ obs = {"revoke_device", "reactivate_check", "reactivate_device"} \X BOOLEAN

SpecSeats ==
    InitSeats /\ [][NextDevice]_vars

SpecSerial ==
    InitSeats /\ [][NextSerial]_vars

InitRevoked ==
    /\ InitDevice /\ DOMAIN licenses = {"L1"} /\ licenses["L1"].plan_id = "P1"
    /\ licenses["L1"].status = ACTIVE
    /\ \A a \in DOMAIN activations : activations[a].last_validated_at \in {<<>>, <<0>>}
    /\ obs = {<<"validate_device", FALSE>>}

SpecRevoked ==
    InitRevoked /\ [][NextDevice]_vars

InitSweep ==
    /\ InitDevice /\ DOMAIN licenses = {"L1"} /\ licenses["L1"].plan_id = "P1"
    /\ licenses["L1"].status = ACTIVE
    /\ \A a \in DOMAIN activations : activations[a].last_validated_at \in {<<>>, <<0>>}
    /\ obs = {<<"validate_device", FALSE>>}

SpecSweep ==
    InitSweep /\ [][NextSweep]_vars

InitLog ==
    /\ InitDevice /\ DOMAIN licenses = {"L1"} /\ licenses["L1"].plan_id = "P1"
    /\ licenses["L1"].status = ACTIVE
    /\ \A a \in DOMAIN activations : activations[a].last_validated_at \in {<<>>, <<0>>}
    /\ obs = {"validate"} \X BOOLEAN

SpecLog ==
    InitLog /\ [][NextLog]_vars

InitCode ==
    /\ InitLicense
    /\ obs = {"sanitize_license_code", "validate_license_code_format"} \X BOOLEAN

SpecCode ==
    InitCode /\ [][NextCode]_vars

InitInfo ==
    /\ InitDevice /\ DOMAIN licenses = {"L1"}
    /\ \A a \in DOMAIN activations : activations[a].last_validated_at \in {<<>>, <<0>>}
    /\ obs = {"get_license_info"} \X BOOLEAN

SpecInfo ==
    InitInfo /\ [][NextDevice]_vars

InitGate ==
    /\ InitDevice /\ DOMAIN licenses = {"L1"} /\ licenses["L1"].plan_id = "P1"
    /\ \A a \in DOMAIN activations : activations[a].last_validated_at = <<>>
    /\ obs = {"activate_device"} \X BOOLEAN

SpecGate ==
    InitGate /\ [][NextDevice]_vars

InitToken ==
    InitLicense /\ obs = {"verify_device_token", "get_current_admin"} \X BOOLEAN

SpecToken ==
    InitToken /\ [][NextToken]_vars

InitStore ==
    /\ InitDevice /\ licenses["L1"].plan_id = "P1"
    /\ licenses["L1"].status = ACTIVE /\ licenses["L1"].expires_at = MaxDays
    /\ DOMAIN activations \subseteq {"a1"}
    /\ \A a \in DOMAIN activations : activations[a].last_validated_at \in {<<>>, <<0>>}
    /\ obs = {"delete_license", "delete_company", "delete_plan"} \X BOOLEAN

SpecStore ==
    InitStore /\ [][NextStore]_vars

InitRenew ==
    /\ InitDevice /\ DOMAIN licenses = {"L1"} /\ licenses["L1"].plan_id = "P1"
    /\ \A a \in DOMAIN activations : activations[a].last_validated_at = <<>>
    /\ obs = {"renew_license", "renew_commit"} \X BOOLEAN

SpecRenew ==
    InitRenew /\ [][NextRenew]_vars

(* The device lifecycle on one license of either plan, with devices that  *)
(* never validated, observing the refused validations and every outcome   *)
(* of reactivation.                                                       *)
InitLifecycle ==
    /\ InitDevice /\ DOMAIN licenses = {"L1"}
    /\ \A a \in DOMAIN activations : activations[a].last_validated_at = <<>>
    /\ obs = {<<"validate_device", FALSE>>}
             \cup ({"reactivate_check", "reactivate_device"} \X BOOLEAN)

SpecLifecycle ==
    InitLifecycle /\ [][NextDevice]_vars

----------------------------------------------------------------------------
(* Properties *)

(* C1: for every license whose plan has a finite max_devices, the number   *)
(* of its device activations with is_active = TRUE is at most max_devices  *)
(* in every reachable state, also when the capacity checks and the commits *)
(* of concurrent reactivate_device calls interleave.                       *)
C1_ActiveWithinMaxDevices ==
    \A l \in DOMAIN licenses :
        plans[licenses[l].plan_id].max_devices # -1 =>
            get_active_devices_count(l, activations)
                <= plans[licenses[l].plan_id].max_devices

(* C2: validate_device answers ok only if the token verifies (good         *)
(* signature, type device, not past its exp) and names the requesting      *)
(* device, an activation of that device exists with is_active and not      *)
(* is_revoked, the license named by the token exists with status active,   *)
(* and the license is not expired or the request is offline within the     *)
(* grace period counted from last_validated_at.                            *)
C2_ValidateOkOnlyIfEntitled ==
    \A d \in RequestDeviceIds, tok \in RequestTokens, off \in BOOLEAN :
        validate_device(licenses, activations, d, tok, off, now).ok =>
            /\ tok.sig = "good" /\ tok.type = "device" /\ tok.exp >= now
            /\ tok.sub = d
            /\ tok.license_id \in DOMAIN licenses
            /\ licenses[tok.license_id].status = ACTIVE
            /\ \E a \in DOMAIN activations :
                  /\ activations[a].device_id = d
                  /\ activations[a].is_active /\ ~activations[a].is_revoked
                  /\ \/ licenses[tok.license_id].expires_at >= now
                     \/ /\ off
                        /\ activations[a].last_validated_at # <<>>
                        /\ now < activations[a].last_validated_at[1] + GracePeriod

C2_Witness ==
    /\ last.op = "validate_device" /\ last.ok
    /\ last.pre # <<>> /\ last.pre[1].is_active /\ ~last.pre[1].is_revoked
    /\ licenses[last.pre[1].license_id].status = ACTIVE

(* C3: a created (inactive) license that is not past its expires_at can be *)
(* activated; a                                                            *)
(* device unknown to the store can then be activated with its code when    *)
(* the plan has a free seat; and an online validation with the returned    *)
(* token then answers ok with the 'valid' message.                         *)
C3_HappyPath ==
    \A l \in DOMAIN licenses, d \in RequestDeviceIds, m \in Metas :
        (/\ licenses[l].status = INACTIVE /\ licenses[l].expires_at >= now
         /\ ActByDevice(activations, d) = {}) =>
            LET r1 == activate_license(licenses[l], now)
                lics1 == [licenses EXCEPT ![l] = r1.license]
                r2 == activate_device(lics1, plans, activations, lics1[l].code, d, m, now)
                r3 == validate_device(lics1, r2.activations, d, r2.token[1], FALSE, now)
            IN /\ r1.ok /\ lics1[l].status = ACTIVE
               /\ check_availability(l, lics1, plans, activations) =>
                    (r2.ok /\ r2.token # <<>> /\ r3.ok /\ r3.msg = MsgValid)

(* C4: for an active, non-revoked device presenting a token that verifies, *)
(* on a license with status active and expires_at in the past, validation  *)
(* answers ok (with the grace-period message) exactly when the request is  *)
(* offline, last_validated_at is set and now < last_validated_at + grace   *)
(* period, and then sets last_validated_at to now; otherwise it fails with *)
(* 'license expired' and writes nothing.                                   *)
C4_ExpiredLicenseGrace ==
    \A a \in DOMAIN activations, tok \in issued, off \in BOOLEAN :
        LET row == activations[a]
            l == tok.license_id
            r == validate_device(licenses, activations, row.device_id, tok, off, now)
            inGrace == /\ off
                       /\ row.last_validated_at # <<>>
                       /\ now < row.last_validated_at[1] + GracePeriod
        IN (/\ row.is_active /\ ~row.is_revoked
            /\ tok.sub = row.device_id /\ tok.exp >= now
            /\ l \in DOMAIN licenses /\ l = row.license_id
            /\ licenses[l].status = ACTIVE /\ licenses[l].expires_at < now)
           => /\ r.ok <=> inGrace
              /\ r.ok => /\ r.msg = MsgGrace
                         /\ r.activations[a].last_validated_at = <<now>>
                         /\ r.activations = [activations EXCEPT ![a].last_validated_at = <<now>>]
              /\ ~r.ok => (r.msg = MsgLicenseExpired /\ r.activations = activations)

C4_Witness ==
    /\ last.op = "validate_device" /\ last.ok /\ last.msg = MsgGrace
    /\ last.pre # <<>>
    /\ licenses[last.pre[1].license_id].expires_at < now
    /\ last.pre[1].last_validated_at # <<now>>
    /\ \E a \in DOMAIN activations :
          activations[a].device_id = last.target /\ activations[a].last_validated_at = <<now>>

(* C5: on an active, unexpired license whose finite plan is full,          *)
(* activate_device for a device unknown to the store fails with the        *)
(* capacity message and writes nothing; once any one of the license's      *)
(* active devices is revoked, the same request succeeds and the license    *)
(* has max_devices active devices again.                                   *)
C5_RevokeFreesSeat ==
    [][\A code \in RequestCodes, d \in RequestDeviceIds, m \in Metas :
        \A l \in LicenseByCode(licenses, code) :
            LET max == plans[licenses[l].plan_id].max_devices IN
            (/\ ActivateDeviceReq(code, d, m)
             /\ licenses[l].status = ACTIVE /\ licenses[l].expires_at >= now
             /\ max # -1 /\ get_active_devices_count(l, activations) = max
             /\ ActByDevice(activations, d) = {})
            => /\ ~last'.ok /\ last'.msg = MsgNoCapacity /\ activations' = activations
               /\ \A a \in DOMAIN activations :
                     (activations[a].license_id = l /\ activations[a].is_active) =>
                         LET acts1 == revoke_device(activations, a, "r", now)
                             r2 == activate_device(licenses, plans, acts1, code, d, m, now)
                         IN r2.ok /\ get_active_devices_count(l, r2.activations) = max]_vars

(* C6: renew_license on a license whose expires_at is in the past sets     *)
(* expires_at to now + days, turns status expired into active, and leaves  *)
(* the license not expired.                                                *)
C6_RenewExpiredFromNow ==
    \A l \in DOMAIN licenses, d \in 1..MaxDays :
        licenses[l].expires_at < now =>
            LET r == renew_license(licenses[l], d, now) IN
            /\ r.expires_at = now + d
            /\ licenses[l].status = EXPIRED => r.status = ACTIVE
            /\ ~License_is_expired(r, now)

C6_Witness ==
    /\ last.op = "renew_license"
    /\ last.pre[1].expires_at < now /\ last.pre[1].status = EXPIRED
    /\ licenses[last.target].status = ACTIVE
    /\ licenses[last.target].expires_at > now

(* C7: every revoke_device call on an existing activation succeeds and     *)
(* leaves it revoked, whatever the capacity or status of its license; and  *)
(* reactivate_device on a revoked device whose license has no free seat    *)
(* fails with the capacity message and leaves is_active, is_revoked,       *)
(* revoked_at and revoke_reason of the device as they were.                *)
C7_RevokeAlwaysReactivateNeedsSeat ==
    [][\A a \in ActIds :
        /\ \A reason \in Reasons :
              RevokeDeviceReq(a, reason) =>
                  /\ last'.op = "revoke_device" /\ last'.ok
                  /\ ~activations'[a].is_active /\ activations'[a].is_revoked
        /\ (/\ ReactivateCheckReq(a)
            /\ activations[a].is_revoked
            /\ activations[a].license_id \in DOMAIN licenses
            /\ plans[licenses[activations[a].license_id].plan_id].max_devices # -1
            /\ get_active_devices_count(activations[a].license_id, activations)
                 >= plans[licenses[activations[a].license_id].plan_id].max_devices)
           => /\ last'.op = "reactivate_check"
              /\ ~last'.ok /\ last'.msg = MsgNoCapacity
              /\ a \notin DOMAIN pending'
              /\ activations'[a] = activations[a]
              /\ ~activations'[a].is_active /\ activations'[a].is_revoked]_vars

C7_Witness ==
    /\ last.op = "reactivate_check" /\ ~last.ok /\ last.msg = MsgNoCapacity
    /\ last.pre[1].is_revoked
    /\ activations[last.target] = last.pre[1]
    /\ activations[last.target].revoked_at # <<>>
    /\ activations[last.target].revoke_reason # <<>>

(* C8: activate_device for a device that has an active activation under    *)
(* license A, called with the code of another license B that is active,    *)
(* unexpired and has a free seat, fails with the 'already activated on     *)
(* another license' message and writes nothing.                            *)
C8_OtherLicenseRejected ==
    [][\A a \in DOMAIN activations, lb \in DOMAIN licenses, m \in Metas :
        (/\ ActivateDeviceReq(licenses[lb].code, activations[a].device_id, m)
         /\ activations[a].is_active /\ activations[a].license_id # lb
         /\ licenses[lb].status = ACTIVE /\ licenses[lb].expires_at >= now
         /\ check_availability(lb, licenses, plans, activations))
        => /\ ~last'.ok /\ last'.msg = MsgOtherLicense
           /\ activations' = activations]_vars

C10_RevokedImpliesInactive ==
    \A a \in DOMAIN activations : activations[a].is_revoked => ~activations[a].is_active

C10_Witness ==
    /\ last.op = "revoke_device"
    /\ last.pre[1].is_active
    /\ activations[last.target].is_revoked /\ ~activations[last.target].is_active

(* C11: for every license and every instant, is_valid() equals             *)
(* (status = active and expires_at > now), also at the instant where       *)
(* expires_at = now; the value is computed from status and expires_at.     *)
C11_IsValidIffActiveAndFuture ==
    [][\A code \in RequestCodes :
        \A l \in LicenseByCode(licenses, code) :
            GetLicenseInfoReq(code) =>
                /\ last'.op = "get_license_info" /\ last'.ok
                /\ last'.pre[1].is_valid
                      <=> (licenses[l].status = ACTIVE /\ licenses[l].expires_at > now)]_vars

(* C11 as amended: is_valid() equals (status = active and not             *)
(* expires_at < now): at the instant expires_at = now an active license is *)
(* still valid.  It is computed from status and expires_at at each call.    *)
C11_IsValidIffActiveAndNotPast ==
    \A code \in RequestCodes :
        \A l \in LicenseByCode(licenses, code) :
            LET r == get_license_info(licenses, plans, activations, code, now) IN
            /\ r.ok
            /\ r.info[1].is_valid
                  <=> (licenses[l].status = ACTIVE /\ licenses[l].expires_at >= now)

C11_Witness ==
    /\ last.op = "get_license_info" /\ last.ok
    /\ last.pre[1].status = ACTIVE /\ last.pre[1].expires_at = now
    /\ last.pre[1].is_valid
    /\ now > 0

(* C12: for every license whose plan has max_devices = -1,                 *)
(* check_availability is true and get_available_slots is -1, whatever the  *)
(* number of active devices of the license.                                *)
C12_UnlimitedPlan ==
    \A l \in DOMAIN licenses :
        plans[licenses[l].plan_id].max_devices = -1 =>
            /\ check_availability(l, licenses, plans, activations)
            /\ get_available_slots(l, licenses, plans, activations) = -1

C12_Witness ==
    /\ last.op = "get_license_info" /\ last.ok
    /\ last.pre[1].max_devices = -1
    /\ last.pre[1].active_devices = 2
    /\ last.pre[1].available_slots = -1

(* C13: for every code c over the generator's alphabet,                    *)
(* sanitize_license_code(format_license_code(c)) = c, and                  *)
(* validate_license_code_format accepts c and its formatted form when c    *)
(* has 32 characters.                                                      *)
C13_FormatSanitizeRoundTrip ==
    (\A i \in DOMAIN license_code : license_code[i] \in CodeChars) =>
        LET shown == format_license_code(license_code, FormatEvery) IN
        /\ sanitize_license_code(shown) = license_code
        /\ Len(license_code) = CodeLength =>
              /\ validate_license_code_format(license_code)
              /\ validate_license_code_format(shown)

C13_Witness ==
    /\ last.op = "sanitize_license_code"
    /\ Len(license_code) = CodeLength
    /\ \A i \in DOMAIN license_code : license_code[i] \in CodeChars
    /\ last.pre[1] = format_license_code(license_code, FormatEvery)
    /\ Len(last.pre[1]) = CodeLength + 7
    /\ \E i \in DOMAIN license_code : license_code[i] # license_code[1]

(* C14: from the commit of revoke_device until a reactivation of that      *)
(* device commits, every validate_device call for the device fails with    *)
(* 'device revoked', whatever token it carries, and last_validated_at is   *)
(* not changed by those calls.                                             *)
C14_RevokedAlwaysDeviceRevoked ==
    [][\A d \in RequestDeviceIds, tok \in RequestTokens, off \in BOOLEAN :
        (/\ ValidateDeviceReq(d, tok, off)
         /\ \E a \in ActByDevice(activations, d) : activations[a].is_revoked)
        => /\ last'.op = "validate_device" /\ ~last'.ok
           /\ last'.msg = MsgDeviceRevoked
           /\ activations' = activations]_vars

(* C14 as amended: while a device is revoked (from the commit of           *)
(* revoke_device until a reactivation of it commits), every                *)
(* validate_device call for it fails and leaves last_validated_at and the  *)
(* rest of the store as they were; a call whose token verifies and names   *)
(* the device fails with 'device revoked', also when the license is active *)
(* and not expired.                                                        *)
C14_RevokedBlocksValidation ==
    \A a \in DOMAIN activations :
        activations[a].is_revoked =>
            \A tok \in RequestTokens, off \in BOOLEAN :
                LET d == activations[a].device_id
                    r == validate_device(licenses, activations, d, tok, off, now)
                IN /\ ~r.ok
                   /\ r.activations = activations
                   /\ (verify_device_token(tok, now) # <<>> /\ tok.sub = d)
                         => r.msg = MsgDeviceRevoked

C14_Witness ==
    /\ last.op = "validate_device" /\ ~last.ok /\ last.msg = MsgDeviceRevoked
    /\ now > 0
    /\ last.pre[1].is_revoked /\ last.pre[1].revoked_at = <<now>>
    /\ last.pre[1].last_validated_at # <<>>
    /\ licenses[last.pre[1].license_id].status = ACTIVE
    /\ licenses[last.pre[1].license_id].expires_at >= now
    /\ \E a \in DOMAIN activations : activations[a] = last.pre[1]

(* C15: for a license whose expires_at is in the past and whose status is  *)
(* still active (mark_expired_licenses has not flipped it), no online      *)
(* validate_device call naming it answers ok, and activate_device with its *)
(* code does not succeed.                                                  *)
C15_MissedSweepNeverValidates ==
    \A l \in DOMAIN licenses :
        (licenses[l].status = ACTIVE /\ licenses[l].expires_at < now) =>
            /\ \A d \in RequestDeviceIds, tok \in RequestTokens :
                  tok.license_id = l =>
                      ~validate_device(licenses, activations, d, tok, FALSE, now).ok
            /\ \A d \in RequestDeviceIds, m \in Metas :
                  ~activate_device(licenses, plans, activations, licenses[l].code, d, m, now).ok

C15_Witness ==
    /\ last.op = "validate_device" /\ ~last.ok /\ last.msg = MsgLicenseExpired
    /\ last.pre # <<>> /\ last.pre[1].is_active /\ ~last.pre[1].is_revoked
    /\ last.pre[1].last_validated_at # <<>>
    /\ now < last.pre[1].last_validated_at[1] + GracePeriod
    /\ licenses[last.pre[1].license_id].status = ACTIVE
    /\ licenses[last.pre[1].license_id].expires_at < now

(* C16: running mark_expired_licenses immediately before a validate_device *)
(* request never changes the ok result of the request.                     *)
C16_SweepKeepsDecisions ==
    [][MarkExpiredLicenses =>
        \A d \in RequestDeviceIds, tok \in RequestTokens, off \in BOOLEAN :
            validate_device(licenses', activations, d, tok, off, now).ok
              = validate_device(licenses, activations, d, tok, off, now).ok]_vars

(* C17: on a license that stays expired, the grace-period successes of a   *)
(* device are not extended by each success: a successful offline           *)
(* validation never moves the grace deadline (last_validated_at + grace    *)
(* period) of the device to a later instant.                               *)
C17_GraceNotExtended ==
    [][\A a \in DOMAIN activations, tok \in issued :
        LET row == activations[a]
            l == row.license_id
        IN (/\ ValidateDeviceReq(row.device_id, tok, TRUE)
            /\ l \in DOMAIN licenses /\ licenses[l].expires_at < now
            /\ row.last_validated_at # <<>>
            /\ validate_device(licenses, activations, row.device_id, tok, TRUE, now).ok)
           => activations'[a].last_validated_at[1] + GracePeriod
                <= row.last_validated_at[1] + GracePeriod]_vars

(* C17 as amended: on an expired license every grace-period success of a   *)
(* device falls strictly within one grace period of the device's previous  *)
(* successful validation, and it resets last_validated_at to now, so the   *)
(* next deadline is now + grace period: offline operation goes on as long  *)
(* as a check succeeds at least once per grace period, and ends once a     *)
(* grace period passes without one.                                        *)
C17_GraceFromLastSuccess ==
    \A a \in DOMAIN activations, tok \in issued :
        LET row == activations[a]
            l == row.license_id
            r == validate_device(licenses, activations, row.device_id, tok, TRUE, now)
        IN (l \in DOMAIN licenses /\ licenses[l].expires_at < now) =>
            /\ r.ok =>
                  /\ row.last_validated_at # <<>>
                  /\ now - row.last_validated_at[1] < GracePeriod
                  /\ r.activations[a].last_validated_at = <<now>>
                  /\ r.activations[a].last_validated_at[1] + GracePeriod = now + GracePeriod
            /\ (row.last_validated_at # <<>>
                 /\ now - row.last_validated_at[1] >= GracePeriod) => ~r.ok

C17_Witness ==
    /\ last.op = "validate_device" /\ last.ok /\ last.msg = MsgGrace
    /\ licenses[last.pre[1].license_id].expires_at < now
    /\ last.pre[1].last_validated_at # <<>>
    /\ last.pre[1].last_validated_at[1] < now
    /\ \E a \in DOMAIN activations :
          /\ activations[a].device_id = last.target
          /\ activations[a].last_validated_at = <<now>>
          /\ now + GracePeriod > last.pre[1].last_validated_at[1] + GracePeriod

(* C18: every validation request, successful or failed and whatever the    *)
(* failure reason, appends exactly one ValidationLog entry whose status    *)
(* (success, failed, grace_period) agrees with the returned result, and    *)
(* leaves the existing entries as they were.                               *)
C18_EveryValidationLogged ==
    [][\A d \in RequestDeviceIds, tok \in RequestTokens, off \in BOOLEAN :
        ValidateRouteReq(d, tok, off) =>
            /\ last'.op = "validate"
            /\ Len(validation_logs') = Len(validation_logs) + 1
            /\ SubSeq(validation_logs', 1, Len(validation_logs)) = validation_logs
            /\ LET e == validation_logs'[Len(validation_logs')] IN
               /\ e.status \in {SUCCESS, FAILED, GRACE_PERIOD}
               /\ e.status = FAILED <=> ~last'.ok
               /\ e.status = GRACE_PERIOD <=> (last'.ok /\ last'.msg = MsgGrace)]_vars

(* C19: License.status changes only along the lifecycle: an expired        *)
(* license becomes active only through renew_license, an inactive license  *)
(* becomes active only through activate_license, a status becomes expired  *)
(* only through the sweep mark_expired_licenses; no operation sets the     *)
(* status to a value of the caller's choice.                               *)
C19_LegalStatusTransitions ==
    [][\A l \in DOMAIN licenses :
        l \in DOMAIN licenses' =>
            /\ (licenses[l].status = EXPIRED /\ licenses'[l].status = ACTIVE)
                  => \E d \in 1..MaxDays : RenewLicenseReq(l, d)
            /\ (licenses[l].status = INACTIVE /\ licenses'[l].status = ACTIVE)
                  => ActivateLicenseReq(l)
            /\ (licenses[l].status # EXPIRED /\ licenses'[l].status = EXPIRED)
                  => MarkExpiredLicenses]_vars

(* C20: activate_license fails exactly when expires_at is in the past, and *)
(* then leaves status and expires_at as they were; otherwise it sets       *)
(* status to active from any prior status and leaves expires_at as it was. *)
C20_ActivateFailsIffPastExpiry ==
    [][\A l \in DOMAIN licenses :
        ActivateLicenseReq(l) =>
            /\ last'.op = "activate_license"
            /\ ~last'.ok <=> licenses[l].expires_at < now
            /\ ~last'.ok => licenses'[l] = licenses[l]
            /\ last'.ok => /\ licenses'[l].status = ACTIVE
                           /\ licenses'[l].expires_at = licenses[l].expires_at]_vars

(* C21: store-mutating operations behave as atomic read-decide-write       *)
(* transactions, so that interleaved operations on one license end as in   *)
(* some serial order: a renew_license(days) that commits on an unexpired   *)
(* license after another renewal has committed since it loaded the row     *)
(* adds its days to the stored expires_at, and no update is lost.          *)
C21_ConcurrentRenewsAddUp ==
    [][\A q \in DOMAIN renewing :
        LET l == renewing[q].license_id IN
        (/\ RenewCommitReq(q)
         /\ l \in DOMAIN licenses
         /\ licenses[l].expires_at # renewing[q].loaded.expires_at
         /\ renewing[q].loaded.expires_at >= now)
        => licenses'[l].expires_at = licenses[l].expires_at + renewing[q].days]_vars

(* C22: in every reachable state every device activation references an     *)
(* existing license, every validation log an existing device activation,   *)
(* and every license an existing company and plan: delete_license and      *)
(* delete_company remove the dependent activations and logs, and an        *)
(* activate_device or a reactivation whose license is deleted between its  *)
(* query and its commit leaves no row behind.                              *)
C22_ReferentialIntegrity ==
    /\ \A a \in DOMAIN activations : activations[a].license_id \in DOMAIN licenses
    /\ \A i \in DOMAIN validation_logs :
          validation_logs[i].device_activation_id \in DOMAIN activations
    /\ \A l \in DOMAIN licenses :
          licenses[l].company_id \in companies /\ licenses[l].plan_id \in DOMAIN plans

C22_Witness ==
    /\ last.op = "delete_license"
    /\ last.pre[1].device_activations # {}
    /\ last.pre[1].validation_logs > Len(validation_logs)
    /\ last.target \notin DOMAIN licenses
    /\ \E q \in DOMAIN activating : activating[q].license_code = last.pre[1].license.code
    /\ \E a \in DOMAIN pending : a \in last.pre[1].device_activations

(* C23: delete_plan fails whenever at least one license references the     *)
(* plan, and then the plan and all licenses are left as they were; it      *)
(* removes the plan (and nothing else) only when no license references it. *)
C23_DeletePlanOnlyIfUnreferenced ==
    [][\A p \in PlanIds :
        DeletePlanReq(p) =>
            LET refs == {l \in DOMAIN licenses : licenses[l].plan_id = p} IN
            /\ last'.op = "delete_plan"
            /\ licenses' = licenses
            /\ refs # {} => (~last'.ok /\ last'.msg = MsgPlanInUse /\ plans' = plans)
            /\ refs = {} => (last'.ok /\ plans' = Restrict(plans, DOMAIN plans \ {p}))
            /\ p \notin DOMAIN plans' => refs = {}]_vars

C23_Witness ==
    /\ last.op = "delete_plan" /\ ~last.ok
    /\ last.target \in DOMAIN plans /\ plans[last.target] = last.pre[1]
    /\ \E l \in DOMAIN licenses : licenses[l].plan_id = last.target
    /\ \E p \in PlanIds : p \notin DOMAIN plans

(* C24: token kinds are never confused in either direction:                *)
(* verify_device_token rejects every token whose type field is not         *)
(* 'device' (such as an administrator access token), and get_current_admin *)
(* never accepts a token minted by create_device_token, also when its      *)
(* device_id equals the id of an existing active administrator.            *)
C24_TokenKindsNeverConfused ==
    [][\A tok \in RequestTokens :
        /\ VerifyDeviceTokenReq(tok) =>
              (last'.op = "verify_device_token" /\ (last'.ok => tok.type = "device"))
        /\ GetCurrentAdminReq(<<tok>>) =>
              (last'.op = "get_current_admin" /\ (tok.type = "device" => ~last'.ok))]_vars

(* C25: renew_license(license, days) on a license whose expires_at is not  *)
(* in the past extends it from its current value: expires_at becomes       *)
(* expires_at + days, so renewing early loses no remaining validity.       *)
C25_RenewExtendsFromCurrentExpiry ==
    [][\A l \in DOMAIN licenses, d \in 1..MaxDays :
        (RenewLicenseReq(l, d) /\ licenses[l].expires_at >= now)
        => licenses'[l].expires_at = licenses[l].expires_at + d]_vars

(* C26: renew_license changes status only as a side effect on expired and  *)
(* suspended licenses, which become active; an inactive license stays      *)
(* inactive and an active one stays active; and renew_license never        *)
(* touches the device activations of the license.                          *)
C26_RenewStatusSideEffect ==
    [][\A l \in DOMAIN licenses, d \in 1..MaxDays :
        RenewLicenseReq(l, d) =>
            /\ last'.op = "renew_license"
            /\ licenses[l].status \in {EXPIRED, SUSPENDED} => licenses'[l].status = ACTIVE
            /\ licenses[l].status \in {INACTIVE, ACTIVE}
                  => licenses'[l].status = licenses[l].status
            /\ activations' = activations]_vars

C26_Witness ==
    /\ last.op = "renew_license"
    /\ last.pre[1].status = SUSPENDED
    /\ licenses[last.target].status = ACTIVE
    /\ \E a \in DOMAIN activations :
          activations[a].license_id = last.target /\ activations[a].is_active

(* C27: mark_expired_licenses sets to expired exactly the licenses that    *)
(* are active with expires_at < now and returns their number, leaves the   *)
(* status of every other license and every expires_at as they were, and is *)
(* idempotent: a second run at the same time changes nothing and returns 0 *)
C27_SweepExactAndIdempotent ==
    LET due == {l \in DOMAIN licenses :
                  licenses[l].status = ACTIVE /\ licenses[l].expires_at < now}
        swept == mark_expired_licenses(licenses, now)
    IN /\ DOMAIN swept = DOMAIN licenses
       /\ \A l \in due : swept[l] = [licenses[l] EXCEPT !.status = EXPIRED]
       /\ \A l \in DOMAIN licenses \ due : swept[l] = licenses[l]
       /\ \A l \in DOMAIN licenses : swept[l].expires_at = licenses[l].expires_at
       /\ mark_expired_licenses_count(licenses, now) = Cardinality(due)
       /\ mark_expired_licenses(swept, now) = swept
       /\ mark_expired_licenses_count(swept, now) = 0

C27_Witness ==
    /\ last.op = "mark_expired_licenses"
    /\ last.pre = <<1>>
    /\ \E l \in DOMAIN licenses : licenses[l].status = EXPIRED /\ licenses[l].expires_at < now
    /\ \E l \in DOMAIN licenses : licenses[l].status # EXPIRED
    /\ mark_expired_licenses_count(licenses, now) = 0

(* C28: create_license fails and adds no license when the company or the   *)
(* plan does not exist; otherwise it adds exactly one license, with status *)
(* inactive, expires_at = now + validity_days, no device activations and a *)
(* code different from the code of every existing license.                 *)
C28_CreateAddsOneFreshLicense ==
    [][\A c \in RequestCompanyIds, p \in RequestPlanIds, code \in Codes, d \in 1..MaxDays :
        CreateLicenseReq(c, p, code, d) =>
            IF c \notin companies \/ p \notin DOMAIN plans
            THEN ~last'.ok /\ licenses' = licenses
            ELSE \E l \in DOMAIN licenses' \ DOMAIN licenses :
                    /\ DOMAIN licenses' = DOMAIN licenses \cup {l}
                    /\ \A x \in DOMAIN licenses : licenses'[x] = licenses[x]
                    /\ licenses'[l].status = INACTIVE
                    /\ licenses'[l].expires_at = now + d
                    /\ licenses'[l].company_id = c /\ licenses'[l].plan_id = p
                    /\ Dependents(activations', {l}) = {}
                    /\ \A x \in DOMAIN licenses : licenses[x].code # licenses'[l].code]_vars

(* C29: activate_device never creates or reactivates a device activation   *)
(* on a license that does not exist, whose status is not active, or whose  *)
(* expires_at is in the past: it fails with the not-found, the not-active  *)
(* or the expired message respectively (checked in that order, and before  *)
(* the capacity check) and leaves the store as it was.                     *)
C29_ActivateRefusesUnentitledLicense ==
    \A code \in RequestCodes, d \in RequestDeviceIds, m \in Metas :
        LET r == activate_device(licenses, plans, activations, code, d, m, now)
            refused(msg) == /\ ~r.ok /\ r.msg = msg
                            /\ r.activations = activations /\ r.token = <<>>
        IN /\ LicenseByCode(licenses, code) = {} => refused(MsgLicenseNotFound)
           /\ \A l \in LicenseByCode(licenses, code) :
                 /\ licenses[l].status # ACTIVE => refused(MsgLicenseNotActive)
                 /\ (licenses[l].status = ACTIVE /\ licenses[l].expires_at < now)
                       => refused(MsgLicenseExpired)

C29_Witness ==
    /\ last.op = "activate_device" /\ ~last.ok /\ last.msg = MsgLicenseExpired
    /\ last.pre = <<>>
    /\ \E l \in DOMAIN licenses :
          /\ licenses[l].status = ACTIVE /\ licenses[l].expires_at < now
          /\ ~check_availability(l, licenses, plans, activations)

(* C30: re-activation is idempotent: for every active license that is not  *)
(* past its expires_at and every device already active on it, however many *)
(* seats of the license are in use, activate_device with the license code  *)
(* and the device_id succeeds, returns the existing activation with no     *)
(* field changed, leaves the number of active seats as it was and returns  *)
(* a token for the device and the license.                                 *)
C30_ReactivationIdempotent ==
    [][\A a \in DOMAIN activations, m \in Metas :
        LET row == activations[a]
            l == row.license_id
        IN (/\ l \in DOMAIN licenses
            /\ ActivateDeviceReq(licenses[l].code, row.device_id, m)
            /\ licenses[l].status = ACTIVE /\ licenses[l].expires_at >= now
            /\ row.is_active)
           => /\ last'.op = "activate_device" /\ last'.ok
              /\ activations' = activations
              /\ get_active_devices_count(l, activations')
                    = get_active_devices_count(l, activations)
              /\ create_device_token(row.device_id, l, now) \in issued']_vars

(* C31: activate_device for a device that is revoked on the license of the *)
(* code, the license being active and not past its expires_at: with a free *)
(* seat the call succeeds and reuses the record (is_active true,           *)
(* is_revoked false, revoked_at and revoke_reason cleared, the metadata    *)
(* replaced by the request's) and the active count grows by exactly one;   *)
(* with no free seat it fails and the device stays revoked.                *)
C31_ActivateReusesRevokedRecord ==
    [][\A a \in DOMAIN activations, m \in Metas :
        LET row == activations[a]
            l == row.license_id
        IN (/\ l \in DOMAIN licenses
            /\ ActivateDeviceReq(licenses[l].code, row.device_id, m)
            /\ licenses[l].status = ACTIVE /\ licenses[l].expires_at >= now
            /\ ~row.is_active /\ row.is_revoked)
           => IF check_availability(l, licenses, plans, activations)
              THEN /\ last'.op = "activate_device" /\ last'.ok
                   /\ activations' =
                         [activations EXCEPT ![a] =
                             [row EXCEPT !.is_active = TRUE, !.is_revoked = FALSE,
                                         !.revoked_at = <<>>, !.revoke_reason = <<>>,
                                         !.meta = m]]
                   /\ get_active_devices_count(l, activations')
                         = get_active_devices_count(l, activations) + 1
              ELSE /\ last'.op = "activate_device" /\ ~last'.ok
                   /\ activations' = activations]_vars

(* C32: in every state and for every request, validate_device reports the  *)
(* first failing check in the fixed order                                  *)
(* invalid token, token/device mismatch, device not found, device revoked, *)
(* license not found, license not active; 'license expired' is answered    *)
(* only when none of these six fails.  So a revoked device on a suspended  *)
(* license gets 'device revoked', and a token of another device gets the   *)
(* mismatch reason even if the requested device does not exist.            *)
C32_FirstFailingCheckReported ==
    \A d \in RequestDeviceIds, tok \in RequestTokens, off \in BOOLEAN :
          LET r == validate_device(licenses, activations, d, tok, off, now)
              data == verify_device_token(tok, now)
              rows == {activations[a] : a \in ActByDevice(activations, d)}
              checks ==
                 << <<data = <<>>, MsgInvalidToken>>,
                    <<data # <<>> /\ data[1].device_id # d, MsgTokenMismatch>>,
                    <<rows = {}, MsgDeviceNotFound>>,
                    <<\E row \in rows : ~row.is_active \/ row.is_revoked, MsgDeviceRevoked>>,
                    <<data # <<>> /\ data[1].license_id \notin DOMAIN licenses,
                      MsgLicenseNotFound>>,
                    <<data # <<>> /\ data[1].license_id \in DOMAIN licenses
                         /\ licenses[data[1].license_id].status # ACTIVE,
                      MsgLicenseNotActive>> >>
              failing == {i \in DOMAIN checks : checks[i][1]}
          IN IF failing # {}
             THEN /\ ~r.ok
                  /\ r.msg = checks[CHOOSE i \in failing : \A j \in failing : i <= j][2]
             ELSE ~r.ok => r.msg = MsgLicenseExpired

C32_Witness ==
    /\ last.op = "validate_device" /\ ~last.ok /\ last.msg = MsgDeviceRevoked
    /\ last.pre # <<>> /\ last.pre[1].is_revoked
    /\ licenses[last.pre[1].license_id].status = SUSPENDED

(* C33: last_validated_at records only successful validations: a           *)
(* validate_device call that answers ok = true (valid or grace period)     *)
(* changes nothing but the last_validated_at of the requested device,      *)
(* which becomes now, and a call that answers ok = false leaves every      *)
(* DeviceActivation and every License as they were: a step that changes a  *)
(* License or a DeviceActivation and is not a successful validation is no  *)
(* validate_device call at all.                                            *)
C33_ValidateWritesOnlyLastValidatedAt ==
    [][/\ (last'.op = "validate_device" /\ last'.ok) =>
            /\ licenses' = licenses
            /\ \E a \in DOMAIN activations :
                  /\ activations[a].device_id = last'.target
                  /\ activations' = [activations EXCEPT ![a].last_validated_at = <<now>>]
       /\ (~(last'.op = "validate_device" /\ last'.ok)
              /\ (licenses' # licenses \/ activations' # activations)) =>
            ~\E d \in RequestDeviceIds, tok \in RequestTokens, off \in BOOLEAN :
                ValidateDeviceReq(d, tok, off)]_vars

C33_Witness ==
    /\ last.op = "validate_device" /\ last.ok /\ last.pre # <<>>
    /\ last.pre[1].last_validated_at # <<now>>
    /\ \E a \in DOMAIN activations :
          /\ activations[a].device_id = last.target
          /\ activations[a] = [last.pre[1] EXCEPT !.last_validated_at = <<now>>]
    /\ Cardinality(DOMAIN activations) > 1

(* C34: when requests do not interleave (and no plan is edited), the       *)
(* number of active devices of a license on a plan of finite capacity      *)
(* never exceeds the plan's max_devices.                                   *)
C34_SerialRequestsKeepCapacity ==
    \A l \in DOMAIN licenses :
        plans[licenses[l].plan_id].max_devices # -1 =>
            get_active_devices_count(l, activations) <= plans[licenses[l].plan_id].max_devices

C34_Witness ==
    /\ last.op = "reactivate_device" /\ last.ok
    /\ last.pre # <<>> /\ ~last.pre[1].is_active
    /\ LET l == last.pre[1].license_id IN
       /\ plans[licenses[l].plan_id].max_devices # -1
       /\ get_active_devices_count(l, activations) = plans[licenses[l].plan_id].max_devices
    /\ \E a \in DOMAIN activations : ~activations[a].is_active

C36_ExpiredStatusMeansPastExpiry ==
    \A l \in DOMAIN licenses :
        licenses[l].status = EXPIRED => licenses[l].expires_at < now

(* C37: reactivate_device decides on seat availability alone: for every    *)
(* device record it succeeds exactly when the owning license cannot be     *)
(* found, or its plan is unlimited, or its active count is below the       *)
(* plan's max_devices, whatever the license's status and expires_at; on    *)
(* success the record gets is_active = true, is_revoked = false and        *)
(* revoked_at and revoke_reason cleared, and nothing else changes.         *)
C37_ReactivateDependsOnSeatsOnly ==
    \A a \in DOMAIN activations :
        LET row == activations[a]
            l == row.license_id
            used == Cardinality({x \in DOMAIN activations :
                                   activations[x].license_id = l /\ activations[x].is_active})
            free == \/ l \notin DOMAIN licenses
                    \/ plans[licenses[l].plan_id].max_devices = -1
                    \/ used < plans[licenses[l].plan_id].max_devices
        IN /\ reactivate_check(licenses, plans, activations, a).ok <=> free
           /\ reactivate_commit(activations, a, row) =
                 [activations EXCEPT ![a] =
                     [row EXCEPT !.is_active = TRUE, !.is_revoked = FALSE,
                                 !.revoked_at = <<>>, !.revoke_reason = <<>>]]

C37_Witness ==
    /\ last.op = "reactivate_device" /\ last.ok
    /\ last.pre # <<>> /\ last.pre[1].is_revoked /\ ~last.pre[1].is_active
    /\ licenses[last.pre[1].license_id].status = SUSPENDED
    /\ licenses[last.pre[1].license_id].expires_at < now
    /\ activations[last.target].is_active /\ ~activations[last.target].is_revoked
    /\ activations[last.target].revoked_at = <<>>

(* C38: tokens survive a revoke/reactivate cycle: with the license active  *)
(* and not past its expires_at, a token that was issued to the device      *)
(* and has not run out is rejected with 'device revoked' once the device   *)
(* is revoked, and is accepted again by validate_device, online or         *)
(* offline, once the device is reactivated.                                *)
C38_TokenSurvivesRevokeReactivate ==
    \A a \in DOMAIN activations, tok \in issued, off \in BOOLEAN :
        LET row == activations[a]
            l == row.license_id
            r == validate_device(licenses, activations, row.device_id, tok, off, now)
        IN (/\ verify_device_token(tok, now) # <<>>
            /\ tok.sub = row.device_id /\ tok.license_id = l
            /\ l \in DOMAIN licenses
            /\ licenses[l].status = ACTIVE /\ licenses[l].expires_at >= now
            /\ last.target = a /\ last.ok)
           => /\ last.op = "revoke_device" => ~r.ok /\ r.msg = MsgDeviceRevoked
              /\ (last.op = "reactivate_device" /\ last.pre[1].is_revoked) => r.ok

(* C39: a DeviceActivation's binding is immutable: no activate_device,     *)
(* revoke_device, reactivate_device or validate_device call removes a      *)
(* record or changes its device_id, license_id or activated_at, and a      *)
(* step that makes an inactive record active again leaves its              *)
(* last_validated_at as it was.                                            *)
C39_BindingImmutable ==
    [][\A a \in DOMAIN activations :
        /\ a \in DOMAIN activations'
        /\ activations'[a].device_id = activations[a].device_id
        /\ activations'[a].license_id = activations[a].license_id
        /\ activations'[a].activated_at = activations[a].activated_at
        /\ (~activations[a].is_active /\ activations'[a].is_active) =>
              activations'[a].last_validated_at = activations[a].last_validated_at]_vars

C39_Witness ==
    /\ last.op = "reactivate_device" /\ last.ok
    /\ last.pre # <<>> /\ last.pre[1].is_revoked
    /\ activations[last.target].is_active
    /\ activations[last.target].activated_at = last.pre[1].activated_at
    /\ activations[last.target].activated_at < now
    /\ activations[last.target].last_validated_at = last.pre[1].last_validated_at
    /\ last.pre[1].last_validated_at # <<>>

====
